---- MODULE Spec2Model ----
(***************************************************************************)
(* Model of examples/create_forcing_files.py: the ForcingFileGenerator     *)
(* class, its constructor and its two file builders, create_boundary_file  *)
(* and create_river_file.                                                  *)
(*                                                                         *)
(* Numbers.  Tracer values and discharges are integers.  Relaxation rates  *)
(* are exact rationals [n |-> numerator, d |-> denominator], d > 0, in     *)
(* units of 1e-5 1/s (the default lambda 1e-4 is 10 units); the model does *)
(* not round them to binary floating point.  time_step_hours is a whole    *)
(* number of hours.                                                        *)
(*                                                                         *)
(* A Python dict is a sequence of <<key, value>> pairs in insertion order. *)
(* A 4-D array is a function from <<t, k, j, i>> to its element.           *)
(***************************************************************************)
EXTENDS Integers, Sequences, FiniteSets, TLC

VARIABLES self, call, pc, err, ds, ti, t, k,
          data, data_lambda, flux_data, value_data, river_idx

vars == <<self, call, pc, err, ds, ti, t, k,
          data, data_lambda, flux_data, value_data, river_idx>>

(***************************************************************************)
(* Bounds of the model.                                                    *)
(***************************************************************************)
MaxN == 3
MaxNz == 1
MaxSteps == 2
MaxBW == 3
MaxRiverN == 2
MaxSites == 2

(***************************************************************************)
(* Program constants.                                                      *)
(***************************************************************************)
FillValue == -999
UnsetThreshold == -990
LambdaDefault == 10
SecondsPerHour == 3600

NoObject == [kind |-> "none"]
NoArray == <<>>
NoDataset == [state |-> "none", variables |-> {}, written |-> {}, attrs |-> {}]

(***************************************************************************)
(* Python and numpy helpers.                                               *)
(***************************************************************************)
Min(a, b) == IF a <= b THEN a ELSE b
Max(a, b) == IF a >= b THEN a ELSE b

\* range(a, b)
Range(a, b) == a .. (b - 1)

\* ceil(a / b) for b # 0
CeilDiv(a, b) ==
    LET na == IF b < 0 THEN -a ELSE a
        nb == IF b < 0 THEN -b ELSE b
    IN  IF na >= 0 THEN (na + nb - 1) \div nb ELSE -((-na) \div nb)

\* number of elements of numpy.arange(start, stop, step), step # 0
ArangeLen(start, stop, step) == Max(0, CeilDiv(stop - start, step))

\* numpy.arange(start, stop, step), step # 0
Arange(start, stop, step) ==
    [n \in 1 .. ArangeLen(start, stop, step) |-> start + (n - 1) * step]

\* dict.get(key, default)
Get(d, key, default) ==
    IF \E n \in DOMAIN d : d[n][1] = key
    THEN d[CHOOSE n \in DOMAIN d : d[n][1] = key][2]
    ELSE default

\* dict.keys()
Keys(d) == [n \in DOMAIN d |-> d[n][1]]

\* rationals
Zero == [n |-> 0, d |-> 1]
RatLE(a, b) == a.n * b.d <= b.n * a.d
RatLT(a, b) == a.n * b.d < b.n * a.d
RatEq(a, b) == a.n * b.d = b.n * a.d
RatAdd(a, b) == [n |-> a.n * b.d + b.n * a.d, d |-> a.d * b.d]
\* lambda_val * weight
Scale(lambda_val, weight) == [n |-> lambda_val * weight.n, d |-> weight.d]

\* The merge rule "sum" instead of "maximum".
MaximumAsSum(a, b) == RatAdd(a, b)
\* numpy.maximum(a, b), elementwise
Maximum(a, b) == IF RatLE(b, a) THEN a ELSE b

\* The taper reaching zero at the innermost buffer cell.
WeightOffByOne(p, buffer_width) ==
    [n |-> buffer_width - (p + 1), d |-> buffer_width]
\* The taper measured against a buffer one cell wider.
WeightWide(p, buffer_width) ==
    [n |-> buffer_width + 1 - p, d |-> buffer_width + 1]
\* weight = 1.0 - p / buffer_width, p the distance from the wall
Weight(p, buffer_width) == [n |-> buffer_width - p, d |-> buffer_width]

(***************************************************************************)
(* ForcingFileGenerator.__init__                                           *)
(***************************************************************************)
Shape(obj) == (0 .. obj.num_steps - 1) \X (0 .. obj.Nz - 1)
                \X (0 .. obj.Ny - 1) \X (0 .. obj.Nx - 1)

\* numpy.full(shape, v) and numpy.zeros(shape)
Full(obj, v) == [c \in Shape(obj) |-> v]

NewObject(Nx, Ny, Nz, time_step_hours, num_steps) ==
    [kind |-> "ForcingFileGenerator",
     Nx |-> Nx, Ny |-> Ny, Nz |-> Nz,
     time_step_hours |-> time_step_hours,
     num_steps |-> num_steps,
     times |-> Arange(0, num_steps * time_step_hours * SecondsPerHour,
                      time_step_hours * SecondsPerHour)]

DimVals == -1 .. 2
StepVals == -1 .. 2
NumStepsVals == -1 .. MaxSteps

CtorArgs == [Nx : DimVals, Ny : DimVals, Nz : DimVals,
             time_step_hours : StepVals, num_steps : NumStepsVals]

Idle == /\ ti = 0 /\ t = 0 /\ k = 0 /\ river_idx = 0
        /\ data = NoArray /\ data_lambda = NoArray
        /\ flux_data = NoArray /\ value_data = NoArray
        /\ ds = NoDataset /\ err = "none"

InitCtor ==
    /\ self = NoObject
    /\ call \in CtorArgs
    /\ pc = "new"
    /\ Idle

\* numpy.arange rejects a zero step; every other argument is accepted.
Construct ==
    /\ pc = "new"
    /\ IF call.time_step_hours = 0
       THEN /\ pc' = "raised"
            /\ err' = "ZeroDivisionError"
            /\ self' = self
       ELSE /\ pc' = "constructed"
            /\ err' = err
            /\ self' = NewObject(call.Nx, call.Ny, call.Nz,
                                 call.time_step_hours, call.num_steps)
    /\ UNCHANGED <<call, ds, ti, t, k, data, data_lambda,
                   flux_data, value_data, river_idx>>

NextCtor == Construct

SpecCtor == InitCtor /\ [][NextCtor]_vars

(***************************************************************************)
(* Inputs of create_boundary_file.                                         *)
(***************************************************************************)
Absent == [present |-> FALSE, val |-> 0]
Given(v) == [present |-> TRUE, val |-> v]

\* One dict entry, or none when the caller leaves the key out.
Entry(key, o) == IF o.present THEN << <<key, o.val>> >> ELSE << >>

Reverse(s) == [n \in DOMAIN s |-> s[Len(s) + 1 - n]]

\* The edges a caller may give; -995 is a value of the fill family.
EdgeChoices ==
    [west : {Absent, Given(-995), Given(10)}, east : {Absent, Given(12)},
     north : {Absent, Given(11)}, south : {Absent, Given(9)}]

\* A tracer configuration with its keys in the order of the docstring.
Listing(c, l) ==
    Entry("west", c.west) \o Entry("east", c.east) \o Entry("north", c.north)
        \o Entry("south", c.south) \o Entry("lambda", l)

\* Configurations listed as in the docstring with an explicit lambda, and
\* listed the other way round without one.
TracerConfigs ==
    { Listing(c, Given(20)) : c \in EdgeChoices }
    \cup { Reverse(Listing(c, Absent)) : c \in EdgeChoices }

ExampleT == << <<"west", 10>>, <<"east", 12>>, <<"north", 11>>,
               <<"south", 9>>, <<"lambda", 10>> >>
ExampleS == << <<"west", 34>>, <<"east", 35>>, <<"north", 33>>,
               <<"south", 36>>, <<"lambda", 10>> >>

TracerDicts ==
    { << >> }
    \cup { << <<"T", c>> >> : c \in TracerConfigs }
    \cup { << <<"T", ExampleT>>, <<"S", c>> >> : c \in {ExampleS, << >>} }

ValidObjects ==
    { NewObject(nx, ny, nz, 1, ns) :
      nx \in 1 .. MaxN, ny \in 1 .. MaxN, nz \in 1 .. MaxNz, ns \in 1 .. MaxSteps }

BoundaryArgs == [tracers_dict : TracerDicts, buffer_width : -1 .. MaxBW]

(***************************************************************************)
(* ForcingFileGenerator.create_boundary_file                               *)
(***************************************************************************)
tracer_name == call.tracers_dict[ti][1]
tracer_config == call.tracers_dict[ti][2]
buffer_width == call.buffer_width

west_val == Get(tracer_config, "west", FillValue)
east_val == Get(tracer_config, "east", FillValue)
north_val == Get(tracer_config, "north", FillValue)
south_val == Get(tracer_config, "south", FillValue)
lambda_val == Get(tracer_config, "lambda", LambdaDefault)

\* The edges taken south and north first.
EdgeOrderSouthFirst == <<"south", "north", "west", "east">>
\* The order of the four blocks inside the (t, k) loops.
EdgeOrder == <<"west", "east", "south", "north">>

EdgeIndex(e) == CHOOSE n \in 1 .. 4 : EdgeOrder[n] = e

\* data[t, k, :, i] = val for i in cols; data[t, k, j, :] = val for j in rows
SetColumns(arr, cols, val) ==
    [c \in DOMAIN arr |->
        IF c[1] = t /\ c[2] = k /\ c[4] \in cols THEN val ELSE arr[c]]
SetRows(arr, rows, val) ==
    [c \in DOMAIN arr |->
        IF c[1] = t /\ c[2] = k /\ c[3] \in rows THEN val ELSE arr[c]]

\* data_lambda[t, k, :, i] = maximum(data_lambda[t, k, :, i], lambda_val * weight)
MergeWest(arr) ==
    [c \in DOMAIN arr |->
        IF c[1] = t /\ c[2] = k /\ c[4] \in Range(0, Min(buffer_width, self.Nx))
        THEN Maximum(arr[c], Scale(lambda_val, Weight(c[4], buffer_width)))
        ELSE arr[c]]
MergeEast(arr) ==
    [c \in DOMAIN arr |->
        IF c[1] = t /\ c[2] = k
           /\ c[4] \in Range(Max(0, self.Nx - buffer_width), self.Nx)
        THEN Maximum(arr[c],
                Scale(lambda_val, Weight(self.Nx - 1 - c[4], buffer_width)))
        ELSE arr[c]]
MergeSouth(arr) ==
    [c \in DOMAIN arr |->
        IF c[1] = t /\ c[2] = k /\ c[3] \in Range(0, Min(buffer_width, self.Ny))
        THEN Maximum(arr[c], Scale(lambda_val, Weight(c[3], buffer_width)))
        ELSE arr[c]]
MergeNorth(arr) ==
    [c \in DOMAIN arr |->
        IF c[1] = t /\ c[2] = k
           /\ c[3] \in Range(Max(0, self.Ny - buffer_width), self.Ny)
        THEN Maximum(arr[c],
                Scale(lambda_val, Weight(self.Ny - 1 - c[3], buffer_width)))
        ELSE arr[c]]

InitBoundary ==
    /\ self \in ValidObjects
    /\ call \in BoundaryArgs
    /\ pc = "b_open"
    /\ Idle

\* nc.Dataset(filepath, 'w'), the dimensions and the time variable
OpenBoundary ==
    /\ pc = "b_open"
    /\ ds' = [state |-> "open", variables |-> {<<"time", "">>},
              written |-> {<<"time", "">>}, attrs |-> {}]
    /\ pc' = "b_tracer"
    /\ UNCHANGED <<self, call, err, ti, t, k, data, data_lambda,
                   flux_data, value_data, river_idx>>

\* Head of the tracer loop: the two createVariable calls, the fresh arrays.
AddTracer ==
    /\ pc = "b_tracer"
    /\ ti < Len(call.tracers_dict)
    /\ ti' = ti + 1
    /\ ds' = [ds EXCEPT !.variables =
                @ \cup {<<call.tracers_dict[ti + 1][1], "">>,
                        <<call.tracers_dict[ti + 1][1], "lambda">>}]
    /\ data' = Full(self, FillValue)
    /\ data_lambda' = Full(self, Zero)
    /\ t' = 0
    /\ k' = 0
    /\ pc' = IF self.num_steps > 0 /\ self.Nz > 0 THEN EdgeOrder[1] ELSE "b_write"
    /\ UNCHANGED <<self, call, err, flux_data, value_data, river_idx>>

\* Control after the block of edge e: the next block, the next (t, k), or the write.
AfterEdge(e) ==
    IF EdgeIndex(e) < 4
    THEN /\ pc' = EdgeOrder[EdgeIndex(e) + 1]
         /\ UNCHANGED <<t, k>>
    ELSE IF k + 1 < self.Nz
         THEN /\ pc' = EdgeOrder[1] /\ k' = k + 1 /\ t' = t
         ELSE IF t + 1 < self.num_steps
              THEN /\ pc' = EdgeOrder[1] /\ k' = 0 /\ t' = t + 1
              ELSE /\ pc' = "b_write" /\ UNCHANGED <<t, k>>

West ==
    /\ pc = "west"
    /\ IF west_val > UnsetThreshold
       THEN /\ data' = SetColumns(data, Range(0, Min(buffer_width, self.Nx)), west_val)
            /\ data_lambda' = MergeWest(data_lambda)
       ELSE UNCHANGED <<data, data_lambda>>
    /\ AfterEdge("west")
    /\ UNCHANGED <<self, call, err, ds, ti, flux_data, value_data, river_idx>>

East ==
    /\ pc = "east"
    /\ IF east_val > UnsetThreshold
       THEN /\ data' = SetColumns(data,
                          Range(Max(0, self.Nx - buffer_width), self.Nx), east_val)
            /\ data_lambda' = MergeEast(data_lambda)
       ELSE UNCHANGED <<data, data_lambda>>
    /\ AfterEdge("east")
    /\ UNCHANGED <<self, call, err, ds, ti, flux_data, value_data, river_idx>>

South ==
    /\ pc = "south"
    /\ IF south_val > UnsetThreshold
       THEN /\ data' = SetRows(data, Range(0, Min(buffer_width, self.Ny)), south_val)
            /\ data_lambda' = MergeSouth(data_lambda)
       ELSE UNCHANGED <<data, data_lambda>>
    /\ AfterEdge("south")
    /\ UNCHANGED <<self, call, err, ds, ti, flux_data, value_data, river_idx>>

North ==
    /\ pc = "north"
    /\ IF north_val > UnsetThreshold
       THEN /\ data' = SetRows(data,
                          Range(Max(0, self.Ny - buffer_width), self.Ny), north_val)
            /\ data_lambda' = MergeNorth(data_lambda)
       ELSE UNCHANGED <<data, data_lambda>>
    /\ AfterEdge("north")
    /\ UNCHANGED <<self, call, err, ds, ti, flux_data, value_data, river_idx>>

\* var[:] = data; var_lambda[:] = data_lambda
WriteBoundary ==
    /\ pc = "b_write"
    /\ ds' = [ds EXCEPT !.written =
                @ \cup {<<tracer_name, "">>, <<tracer_name, "lambda">>}]
    /\ pc' = "b_stats"
    /\ UNCHANGED <<self, call, err, ti, t, k, data, data_lambda,
                   flux_data, value_data, river_idx>>

\* The statistics: numpy.min of an empty selection raises ValueError.
StatsBoundary ==
    /\ pc = "b_stats"
    /\ IF \/ ~ \E c \in DOMAIN data : data[c] > UnsetThreshold
          \/ ~ \E c \in DOMAIN data_lambda : RatLT(Zero, data_lambda[c])
       THEN /\ pc' = "raised"
            /\ err' = "ValueError"
       ELSE /\ pc' = "b_tracer"
            /\ err' = err
    /\ UNCHANGED <<self, call, ds, ti, t, k, data, data_lambda,
                   flux_data, value_data, river_idx>>

\* After the tracer loop: the global attributes and ds.close()
CloseBoundary ==
    /\ pc = "b_tracer"
    /\ ti = Len(call.tracers_dict)
    /\ ds' = [ds EXCEPT !.attrs = {"title", "created", "buffer_width"},
                        !.state = "closed"]
    /\ pc' = "done"
    /\ UNCHANGED <<self, call, err, ti, t, k, data, data_lambda,
                   flux_data, value_data, river_idx>>

NextBoundary ==
    \/ OpenBoundary
    \/ AddTracer
    \/ West
    \/ East
    \/ South
    \/ North
    \/ WriteBoundary
    \/ StatsBoundary
    \/ CloseBoundary

SpecBoundary == InitBoundary /\ [][NextBoundary]_vars

(***************************************************************************)
(* Inputs of create_river_file.                                            *)
(***************************************************************************)
RiverObjects ==
    { NewObject(nx, ny, nz, 1, ns) :
      nx \in 1 .. MaxRiverN, ny \in 1 .. 2,
      nz \in 1 .. MaxNz, ns \in 1 .. MaxSteps }

\* Site coordinates (i, j, k): i may lie one cell outside the grid on either
\* side, j is the first or the last row, k the surface layer Nz - 1.
Coords(obj) == (-1 .. obj.Nx) \X {0, obj.Ny - 1} \X {obj.Nz - 1}

SeqsUpTo(S, n) == UNION { [1 .. m -> S] : m \in 0 .. n }

DischargeValues(n) == [r \in 1 .. n |-> 100 \div r]
TValues(n) == [r \in 1 .. n |-> 9 - r]
SValues(n) == [r \in 1 .. n |-> r]

\* Property dicts for n sites; a list may be one short or one long.
RiverProperties(n) ==
    LET D == {<<"discharge", DischargeValues(m)>> : m \in {n, n + 1}}
        T == {<<"T", TValues(m)>> : m \in {n, n - 1} \cap Nat}
        S == {<<"S", SValues(m)>> : m \in {n, n + 1}}
    IN  { <<d>> : d \in D }
        \cup { <<d, x>> : d \in D, x \in T }
        \cup { <<x, d>> : d \in D, x \in T }
        \cup { <<d, x, y>> : d \in D, x \in T, y \in S }

(***************************************************************************)
(* ForcingFileGenerator.create_river_file                                  *)
(***************************************************************************)
river_locations == call.river_locations
river_properties == call.river_properties

\* tracers = [key for key in river_properties.keys() if key != 'discharge']
TracersOf(props) == SelectSeq(Keys(props), LAMBDA key : key # "discharge")
tracers == TracersOf(river_properties)
discharge_list == Get(river_properties, "discharge", << >>)
n_rivers == Len(river_locations)

\* The validation looking at the discharge list only.
LengthsMatchDischargeOnly(props, n) == Len(Get(props, "discharge", << >>)) = n
\* The two assertions before the tracer loop.
LengthsMatch(props, n) ==
    /\ Len(Get(props, "discharge", << >>)) = n
    /\ \A m \in DOMAIN TracersOf(props) :
          Len(Get(props, TracersOf(props)[m], << >>)) = n

\* An index accepted along an axis of extent n, and the element it names.
IndexOK(x, n) == -n <= x /\ x < n
Norm(x, n) == IF x < 0 THEN x + n ELSE x

\* The cell only written at the first time step.
SetSiteFirstStep(arr, loc, v) ==
    [c \in DOMAIN arr |->
        IF /\ c[1] = 0
           /\ c[2] = Norm(loc[3], self.Nz)
           /\ c[3] = Norm(loc[2], self.Ny)
           /\ c[4] = Norm(loc[1], self.Nx)
        THEN v ELSE arr[c]]
\* The cell only written while it still holds a fill value.
SetSiteKeepFirst(arr, loc, v) ==
    [c \in DOMAIN arr |->
        IF /\ c[2] = Norm(loc[3], self.Nz)
           /\ c[3] = Norm(loc[2], self.Ny)
           /\ c[4] = Norm(loc[1], self.Nx)
           /\ arr[c] \in {0, FillValue}
        THEN v ELSE arr[c]]
\* arr[:, k, j, i] = v for loc = (i, j, k)
SetSite(arr, loc, v) ==
    [c \in DOMAIN arr |->
        IF /\ c[2] = Norm(loc[3], self.Nz)
           /\ c[3] = Norm(loc[2], self.Ny)
           /\ c[4] = Norm(loc[1], self.Nx)
        THEN v ELSE arr[c]]

InitRiver ==
    /\ self \in RiverObjects
    /\ \E locs \in SeqsUpTo(Coords(self), MaxSites) :
          \E props \in RiverProperties(Len(locs)) :
             call = [river_locations |-> locs, river_properties |-> props]
    /\ pc = "r_open"
    /\ Idle

\* nc.Dataset(filepath, 'w'), the dimensions and the time variable
OpenRiver ==
    /\ pc = "r_open"
    /\ ds' = [state |-> "open", variables |-> {<<"time", "">>},
              written |-> {<<"time", "">>}, attrs |-> {}]
    /\ pc' = "r_validate"
    /\ UNCHANGED <<self, call, err, ti, t, k, data, data_lambda,
                   flux_data, value_data, river_idx>>

\* The length assertions.
ValidateRiver ==
    /\ pc = "r_validate"
    /\ IF LengthsMatch(river_properties, n_rivers)
       THEN /\ pc' = "r_tracer"
            /\ err' = err
       ELSE /\ pc' = "raised"
            /\ err' = "AssertionError"
    /\ UNCHANGED <<self, call, ds, ti, t, k, data, data_lambda,
                   flux_data, value_data, river_idx>>

\* Head of the tracer loop: the two createVariable calls, the fresh arrays.
AddRiverTracer ==
    /\ pc = "r_tracer"
    /\ ti < Len(tracers)
    /\ ti' = ti + 1
    /\ ds' = [ds EXCEPT !.variables =
                @ \cup {<<tracers[ti + 1], "flux">>, <<tracers[ti + 1], "">>}]
    /\ flux_data' = Full(self, 0)
    /\ value_data' = Full(self, FillValue)
    /\ river_idx' = 0
    /\ pc' = IF n_rivers > 0 THEN "r_site" ELSE "r_write"
    /\ UNCHANGED <<self, call, err, t, k, data, data_lambda>>

\* One iteration of the loop over river_locations.
AddSite ==
    /\ pc = "r_site"
    /\ LET loc == river_locations[river_idx + 1]
           tracer_values == Get(river_properties, tracers[ti], << >>)
       IN  IF \/ river_idx >= Len(discharge_list)
              \/ river_idx >= Len(tracer_values)
              \/ ~ IndexOK(loc[3], self.Nz)
              \/ ~ IndexOK(loc[2], self.Ny)
              \/ ~ IndexOK(loc[1], self.Nx)
           THEN /\ pc' = "raised"
                /\ err' = "IndexError"
                /\ UNCHANGED <<flux_data, value_data, river_idx>>
           ELSE /\ flux_data' = SetSite(flux_data, loc, discharge_list[river_idx + 1])
                /\ value_data' = SetSite(value_data, loc, tracer_values[river_idx + 1])
                /\ river_idx' = river_idx + 1
                /\ pc' = IF river_idx + 1 < n_rivers THEN "r_site" ELSE "r_write"
                /\ err' = err
    /\ UNCHANGED <<self, call, ds, ti, t, k, data, data_lambda>>

\* var_flux[:] = flux_data; var_value[:] = value_data; the total discharge
WriteRiver ==
    /\ pc = "r_write"
    /\ ds' = [ds EXCEPT !.written =
                @ \cup {<<tracers[ti], "flux">>, <<tracers[ti], "">>}]
    /\ pc' = "r_tracer"
    /\ UNCHANGED <<self, call, err, ti, t, k, data, data_lambda,
                   flux_data, value_data, river_idx>>

\* After the tracer loop: the global attributes and ds.close()
CloseRiver ==
    /\ pc = "r_tracer"
    /\ ti = Len(tracers)
    /\ ds' = [ds EXCEPT !.attrs = {"title", "created", "number_of_rivers"},
                        !.state = "closed"]
    /\ pc' = "done"
    /\ UNCHANGED <<self, call, err, ti, t, k, data, data_lambda,
                   flux_data, value_data, river_idx>>

NextRiver ==
    \/ OpenRiver
    \/ ValidateRiver
    \/ AddRiverTracer
    \/ AddSite
    \/ WriteRiver
    \/ CloseRiver

SpecRiver == InitRiver /\ [][NextRiver]_vars

(***************************************************************************)
(* Vocabulary of the properties: what the caller asked for, stated without *)
(* the builder's loops.                                                    *)
(***************************************************************************)
Edges == {"west", "east", "south", "north"}

Listed(cfg, key) == \E n \in DOMAIN cfg : cfg[n][1] = key
ListedValue(cfg, key) == cfg[CHOOSE n \in DOMAIN cfg : cfg[n][1] = key][2]

\* The edge carries a boundary value: its key is present and not in the fill family.
EdgeIsSet(e) == Listed(tracer_config, e) /\ ListedValue(tracer_config, e) > -990

\* Distance of cell c from the wall of edge e, 0 at the wall.
Distance(e, c) ==
    CASE e = "west" -> c[4]
      [] e = "east" -> self.Nx - 1 - c[4]
      [] e = "south" -> c[3]
      [] e = "north" -> self.Ny - 1 - c[3]

Reaches(e, c) == EdgeIsSet(e) /\ Distance(e, c) < buffer_width
Reaching(c) == {e \in Edges : Reaches(e, c)}

\* lambda_scale * (1 - d / buffer_width)
TaperRate(d) == [n |-> lambda_val * buffer_width - lambda_val * d, d |-> buffer_width]
EdgeRate(e, c) == TaperRate(Distance(e, c))

RECURSIVE SumRates(_, _)
SumRates(S, c) ==
    IF S = {} THEN Zero
    ELSE LET e == CHOOSE x \in S : TRUE
         IN  RatAdd(EdgeRate(e, c), SumRates(S \ {e}, c))

\* Position in the fixed order west, east, south, north.
Rank(e) ==
    CASE e = "west" -> 1 [] e = "east" -> 2 [] e = "south" -> 3 [] e = "north" -> 4
LastOf(S) == CHOOSE e \in S : \A x \in S : Rank(x) <= Rank(e)

\* The arrays of the current tracer are complete.
BoundaryBuilt == pc \in {"b_write", "b_stats"}
RiverBuilt == pc = "r_write"

Positive(r) == RatLT(Zero, r)

\* C1: after the boundary builder has processed a tracer with lambda > 0 and
\* buffer_width >= 1, at every cell the relaxation rate is positive exactly
\* when the value is not the sentinel; cells inside the buffer of some set
\* edge have a non-sentinel value and a positive rate, all other cells keep
\* value -999 and rate 0.
C1_RateIffValue ==
    (BoundaryBuilt /\ buffer_width >= 1 /\ lambda_val > 0) =>
        \A c \in Shape(self) :
            /\ Positive(data_lambda[c]) <=> (data[c] # FillValue)
            /\ (Reaching(c) # {}) => (data[c] # FillValue /\ Positive(data_lambda[c]))
            /\ (Reaching(c) = {}) => (data[c] = FillValue /\ data_lambda[c] = Zero)

C1_Witness ==
    /\ BoundaryBuilt /\ buffer_width >= 1 /\ lambda_val > 0
    /\ \E e \in Edges : EdgeIsSet(e)
    /\ \E e \in Edges : ~ EdgeIsSet(e)
    /\ \E c \in Shape(self) : Reaching(c) # {} /\ Positive(data_lambda[c])
    /\ \E c \in Shape(self) : Reaching(c) = {} /\ data[c] = FillValue

\* C2: at every cell reached by the buffers of two or more set edges the
\* final relaxation rate is the maximum of the per-edge rates
\* lambda * weight, never their sum, and while the edges are applied the
\* rate at a cell never decreases.
C2_State ==
    (BoundaryBuilt /\ buffer_width >= 1) =>
        \A c \in Shape(self) :
            Cardinality(Reaching(c)) >= 2 =>
                /\ \E e \in Reaching(c) : RatEq(data_lambda[c], EdgeRate(e, c))
                /\ \A e \in Reaching(c) : RatLE(EdgeRate(e, c), data_lambda[c])
                /\ ~ RatEq(data_lambda[c], SumRates(Reaching(c), c))

C2_Step ==
    (pc \in Edges /\ pc' \in Edges \cup {"b_write"}) =>
        \A c \in DOMAIN data_lambda : RatLE(data_lambda[c], data_lambda'[c])

C2_MaxMerge == [] C2_State /\ [][C2_Step]_vars

C2_Witness ==
    /\ BoundaryBuilt /\ buffer_width >= 2
    /\ \E c \in Shape(self) :
          /\ Reaches("west", c) /\ Reaches("south", c)
          /\ RatLT(EdgeRate("west", c), EdgeRate("south", c))
          /\ RatEq(data_lambda[c], EdgeRate("south", c))
    /\ \E c \in Shape(self) : Cardinality(Reaching(c)) >= 3

\* C3: the edges are applied in the order west, east, south, north, so at a
\* cell in the buffers of several set edges the final value is the boundary
\* value of the last of them in that order, whatever the order in which the
\* caller listed the keys.
C3_LastEdgeWins ==
    BoundaryBuilt =>
        \A c \in Shape(self) :
            Reaching(c) # {} =>
                data[c] = ListedValue(tracer_config, LastOf(Reaching(c)))

C3_Witness ==
    /\ BoundaryBuilt
    /\ Len(tracer_config) > 0
    /\ tracer_config[1][1] \in {"south", "lambda"}
    /\ \E c \in Shape(self) :
          /\ Reaches("west", c) /\ Reaches("south", c) /\ ~ Reaches("north", c)
          /\ data[c] = 9
    /\ \E c \in Shape(self) :
          /\ Reaches("west", c) /\ Reaches("east", c)
          /\ ~ Reaches("south", c) /\ ~ Reaches("north", c)
          /\ data[c] = 12

SiteInRange(loc) ==
    /\ 0 <= loc[1] /\ loc[1] < self.Nx
    /\ 0 <= loc[2] /\ loc[2] < self.Ny
    /\ 0 <= loc[3] /\ loc[3] < self.Nz
AllInRange == \A r \in DOMAIN river_locations : SiteInRange(river_locations[r])
Distinct ==
    \A r, q \in DOMAIN river_locations :
        r # q => river_locations[r] # river_locations[q]
CellOf(loc, tt) == <<tt, loc[3], loc[2], loc[1]>>
SiteCells == {<<loc[3], loc[2], loc[1]>> : loc \in {river_locations[r] : r \in DOMAIN river_locations}}
CurrentValues == ListedValue(river_properties, tracers[ti])
Discharges == ListedValue(river_properties, "discharge")

\* C5: after the river builder has processed a tracer for pairwise distinct
\* in-range sites, at every time step flux and value at each site's cell are
\* that site's discharge and tracer value, and every other cell holds
\* flux 0 and value -999.
C5_RiverPlacement ==
    (RiverBuilt /\ AllInRange /\ Distinct) =>
        /\ \A r \in DOMAIN river_locations : \A tt \in 0 .. self.num_steps - 1 :
              /\ flux_data[CellOf(river_locations[r], tt)] = Discharges[r]
              /\ value_data[CellOf(river_locations[r], tt)] = CurrentValues[r]
        /\ \A c \in Shape(self) :
              <<c[2], c[3], c[4]>> \notin SiteCells =>
                  flux_data[c] = 0 /\ value_data[c] = FillValue

C5_Witness ==
    /\ RiverBuilt /\ AllInRange /\ Distinct
    /\ Len(river_locations) >= 2
    /\ self.num_steps >= 2
    /\ \E c \in Shape(self) : <<c[2], c[3], c[4]>> \notin SiteCells
    /\ flux_data[CellOf(river_locations[2], 1)] = 50

\* The largest list index among the sites with the coordinates of site r.
LastSharing(r) ==
    CHOOSE q \in DOMAIN river_locations :
        /\ river_locations[q] = river_locations[r]
        /\ \A p \in DOMAIN river_locations :
              river_locations[p] = river_locations[r] => p <= q

ListsMatch ==
    \A n \in DOMAIN river_properties :
        Len(river_properties[n][2]) = Len(river_locations)

\* C6: sites are written in list order: when sites share coordinates the
\* final flux and value there, at every time step, are those of the site
\* with the largest list index among them, and the call raises no error.
C6_LaterSiteOverwrites ==
    (AllInRange /\ ListsMatch /\ ~ Distinct) =>
        /\ pc # "raised"
        /\ RiverBuilt =>
              \A r \in DOMAIN river_locations : \A tt \in 0 .. self.num_steps - 1 :
                  /\ flux_data[CellOf(river_locations[r], tt)]
                        = Discharges[LastSharing(r)]
                  /\ value_data[CellOf(river_locations[r], tt)]
                        = CurrentValues[LastSharing(r)]

C6_Witness ==
    /\ RiverBuilt /\ AllInRange /\ ListsMatch
    /\ Len(river_locations) = 2
    /\ river_locations[1] = river_locations[2]
    /\ self.num_steps >= 2
    /\ flux_data[CellOf(river_locations[1], 1)] = 50

\* C7: a boundary call with buffer_width <= 0 fails with InvalidConfiguration
\* before any value or relax_rate array is built; it never completes normally.
C7_NonPositiveWidthRejected ==
    (pc \in {"b_tracer", "west", "east", "south", "north", "b_write",
                   "b_stats", "done", "raised"}
        /\ call.buffer_width <= 0) =>
        /\ data = NoArray /\ data_lambda = NoArray
        /\ pc # "done"
        /\ pc = "raised" => err = "InvalidConfiguration"

\* Some list of the call has a length other than the number of sites.
SomeListMismatched ==
    \E n \in DOMAIN river_properties :
        Len(river_properties[n][2]) # Len(river_locations)

\* C8: a river call in which the discharge list or any tracer's list differs
\* in length from the site list fails with the length error before any flux
\* or value array is built and before any tracer variable exists, also when
\* the mismatch is in a later tracer.
C8_MismatchRejectedFirst ==
    (pc \in {"r_open", "r_validate", "r_tracer", "r_site", "r_write", "done", "raised"}
        /\ SomeListMismatched) =>
        /\ flux_data = NoArray /\ value_data = NoArray
        /\ ds.variables \subseteq {<<"time", "">>}
        /\ ds.written \subseteq {<<"time", "">>}
        /\ pc \in {"r_open", "r_validate", "raised"}
        /\ pc = "raised" => err = "AssertionError"

C8_Witness ==
    /\ pc = "raised" /\ err = "AssertionError"
    /\ Len(river_properties) = 3
    /\ Len(Discharges) = Len(river_locations)
    /\ Len(ListedValue(river_properties, "T")) = Len(river_locations)
    /\ Len(ListedValue(river_properties, "S")) # Len(river_locations)
    /\ flux_data = NoArray

\* C9: the container file opened by a builder is closed on every exit path:
\* when the call has ended, normally or by an error, the file is not open.
C9_FileClosedOnExit ==
    pc \in {"done", "raised"} => ds.state # "open"

\* C10: constructing the context with a non-positive extent, step count or
\* step size fails with InvalidDimension and yields no object; every object
\* constructed has time offsets of length num_steps that start at 0 and
\* increase by the step size.
C10_ContextValidated ==
    pc \in {"constructed", "raised"} =>
        /\ (call.Nx <= 0 \/ call.Ny <= 0 \/ call.Nz <= 0
              \/ call.num_steps <= 0 \/ call.time_step_hours <= 0) =>
                 (self.kind = "none" /\ err = "InvalidDimension")
        /\ self.kind # "none" =>
              /\ Len(self.times) = self.num_steps
              /\ self.times[1] = 0
              /\ \A n \in 1 .. Len(self.times) - 1 :
                    /\ self.times[n + 1] - self.times[n]
                          = self.time_step_hours * SecondsPerHour
                    /\ self.times[n] < self.times[n + 1]

====
